---- MODULE Spec2Model ----
(***************************************************************************)
(* Model of matrux: the per-room state projection (src/src/room.rs), the   *)
(* event record (src/src/events.rs) and the in-memory persistence store    *)
(* (src/src/store.rs).                                                     *)
(*                                                                         *)
(* A HashMap is a function whose DOMAIN is its key set.  An Option is a    *)
(* record tagged "Some"/"None".  A call that panics (expect / unwrap on    *)
(* None) returns the record tagged "Panic" and aborts the caller: no       *)
(* operation is enabled afterwards.                                        *)
(***************************************************************************)
EXTENDS Integers, FiniteSets, Sequences, TLC

\* ---------------------------------------------------------------- bounds
MaxStamp == 2
MaxToken == 2
MaxLen == 4
NumReaders == 2

\* ------------------------------------------------------------ value sets
MemberType == "m.room.member"
NameType == "m.room.name"
ETypes == {MemberType, NameType}

Alice == "@alice:example.org"
Bob == "@bob:example.org"
Users == {Alice, Bob}

\* Event.state_key is a plain String (events.rs:56): an event without a
\* state key (a message / timeline event) can only carry a sentinel value.
NoStateKey == "<no state key>"
StateKeys == Users \cup {NoStateKey}

RoomIds == {"!a:example.org", "!b:example.org"}
Tokens == 1..MaxToken
Stamps == 1..MaxStamp

\* The empty HashMap (HashMap::new()).
EmptyMap == <<>>

\* Event.content: a HashMap<String, T>; the key the room reads is
\* "membership".
Contents == {EmptyMap, [membership |-> "join"], [membership |-> "leave"]}

Event == [state_key : StateKeys, etype : ETypes, time_stamp : Stamps, content : Contents]

\* ------------------------------------------------------ Option / results
None == [tag |-> "None"]
Some(e) == [tag |-> "Some", ev |-> e]
Panic == [tag |-> "Panic"]
Unit == [tag |-> "Unit"]
OkStr(s) == [tag |-> "Str", str |-> s]
OkTok(t) == [tag |-> "Tok", tok |-> t]
OkRoom(r) == [tag |-> "Room", room |-> r]

\* HashMap::get
MapGet(map, key) == IF key \in DOMAIN map THEN Some(map[key]) ELSE None

\* HashMap::insert (overwrites)
MapInsert(map, key, value) == [k \in DOMAIN map \cup {key} |-> IF k = key THEN value ELSE map[k]]

\* --------------------------------------------------------------- room.rs
\* Room::new
RoomNew(id) == [id |-> id, state |-> EmptyMap]

\* The innermost closure of update_state: `inner_val = &mut event` rebinds
\* a local reference; the resident event `inner` is not written.
InnerClosure(inner, event) == inner

\* The outer closure of update_state, run on the inner map of event.etype:
\* value.entry(state_key).and_modify(inner closure).  and_modify runs the
\* closure on the resident value of an occupied entry and leaves a vacant
\* entry vacant (there is no or_insert).
OuterClosure(value, event) ==
  IF event.state_key \in DOMAIN value
  THEN [value EXCEPT ![event.state_key] = InnerClosure(@, event)]
  ELSE value

\* A variant of update_state that drops the type's inner map when the type
\* is already known instead of keeping it.
UpdateState_toggle(state, event) ==
  IF event.etype \in DOMAIN state
  THEN [t \in DOMAIN state \ {event.etype} |-> state[t]]
  ELSE MapInsert(state, event.etype, EmptyMap)

\* A variant of update_state with the test of `exists` inverted: an unknown
\* type is never registered.
UpdateState_no_register(state, event) ==
  IF event.etype \in DOMAIN state
  THEN [state EXCEPT ![event.etype] = OuterClosure(@, event)]
  ELSE state

\* update_state, first statement (room.rs:33-37): an unknown type gets an
\* empty inner map.
UpdateStateInsert(state, event) ==
  LET exists == event.etype \in DOMAIN state
  IN IF ~exists THEN MapInsert(state, event.etype, EmptyMap) ELSE state

\* update_state, second statement (room.rs:39-45):
\* self.state.entry(etype).and_modify(outer closure).
UpdateStateModify(state, event) ==
  IF event.etype \in DOMAIN state
  THEN [state EXCEPT ![event.etype] = OuterClosure(@, event)]
  ELSE state

\* Room::update_state: the state mapping after the call.
UpdateState(state, event) == UpdateStateModify(UpdateStateInsert(state, event), event)

\* A variant of the borrow rule that lets a `&self` call start while a
\* `&mut self` call is running (a Room shared without exclusion).
SharedBorrowOk_unchecked(pc) == TRUE

\* `&self` (get_state_event, get_membership_state) against `&mut self`
\* (update_state): a shared borrow of the Room exists only while no
\* exclusive borrow does.
SharedBorrowOk(pc) == pc = "idle"

\* `&mut self`: an exclusive borrow exists only while no shared borrow does.
ExclusiveBorrowOk(reading) == \A r \in DOMAIN reading : reading[r] = FALSE

\* Room::get_state_event: expect() panics when the type has no inner map.
GetStateEvent(state, event_type, state_key) ==
  LET state_event_map == MapGet(state, event_type)
  IN IF state_event_map = None THEN Panic ELSE MapGet(state[event_type], state_key)

\* Room::get_membership_state: the panic of get_state_event propagates;
\* unwrap() panics when the resident event has no "membership" content.
GetMembershipState(state, user_id) ==
  LET event == GetStateEvent(state, MemberType, user_id)
  IN IF event = Panic THEN Panic
     ELSE IF event = None THEN OkStr("leave")
     ELSE IF "membership" \in DOMAIN event.ev.content THEN OkStr(event.ev.content.membership)
     ELSE Panic

\* Every Room the code can construct: Room::new followed by update_state
\* calls (the state field is private to room.rs).
Rooms == {[id |-> id, state |-> [t \in S |-> EmptyMap]] : id \in RoomIds, S \in SUBSET ETypes}

\* ------------------------------------------------------------- events.rs
\* The content maps of message events: any of the keys "body" and "msgtype".
MsgContents == UNION {[K -> {"hello", "m.text"}] : K \in SUBSET {"body", "msgtype"}}

MessageEventType == "m.room.message"

\* The events whose content is looked up.
MsgEvents == [state_key : StateKeys, etype : {MessageEventType}, time_stamp : Stamps, content : MsgContents]

\* Event::body
Body(e) == MapGet(e.content, "body")

\* A variant of message_type that looks up "body".
MessageType_body(e) == MapGet(e.content, "body")

\* Event::message_type
MessageType(e) == MapGet(e.content, "msgtype")

\* The characters of an HTML text.  "&lt;" and "&gt;" each stand for the
\* whole entity reference (four characters, none of them '<' or '>').
Chars == {"<", ">", "a", "&lt;", "&gt;"}

\* The html_text arguments of get_html_message.
HtmlTexts == UNION {[1..n -> Chars] : n \in 0..MaxLen}

MessageTypes == {"m.text", "m.notice"}

\* The lazy repetition [^<]+? followed by '>' of HTML_REGEX, from position j
\* on, one character of the repetition already taken: the position of the
\* closing '>', or 0 when the match fails.
RECURSIVE HtmlRegexLazyEnd(_, _)
HtmlRegexLazyEnd(s, j) ==
  IF j > Len(s) THEN 0
  ELSE IF s[j] = ">" THEN j
  ELSE IF s[j] = "<" THEN 0
  ELSE HtmlRegexLazyEnd(s, j + 1)

\* A variant of the pattern with * for +: <[^<]*?> also matches "<>".
HtmlRegexMatchEnd_star(s, i) ==
  IF s[i] = "<" THEN HtmlRegexLazyEnd(s, i + 1) ELSE 0

\* HTML_REGEX = <[^<]+?> tried at position i: the position of the last
\* character of the match, or 0 when there is none.
HtmlRegexMatchEnd(s, i) ==
  IF s[i] = "<" /\ i + 1 <= Len(s) /\ s[i + 1] # "<"
  THEN HtmlRegexLazyEnd(s, i + 2)
  ELSE 0

\* HTML_REGEX.replace_all(s, ""): the leftmost matches, left to right, none
\* overlapping another, are deleted.
RECURSIVE HtmlRegexReplaceAll(_, _)
HtmlRegexReplaceAll(s, i) ==
  IF i > Len(s) THEN <<>>
  ELSE LET e == HtmlRegexMatchEnd(s, i)
       IN IF e > 0 THEN HtmlRegexReplaceAll(s, e + 1)
          ELSE <<s[i]>> \o HtmlRegexReplaceAll(s, i + 1)

\* html_escape::decode_html_entities on these texts: each entity reference
\* becomes the character it names.
DecodeHtmlEntities(s) ==
  [k \in 1..Len(s) |-> IF s[k] = "&lt;" THEN "<" ELSE IF s[k] = "&gt;" THEN ">" ELSE s[k]]

\* get_html_message
GetHtmlMessage(message_type, html_text_arg) ==
  [body |-> DecodeHtmlEntities(HtmlRegexReplaceAll(html_text_arg, 1)),
   message_type |-> message_type,
   format |-> "org.matrix.custom.html",
   formatted_body |-> html_text_arg]

NoMessage == [tag |-> "NoMessage"]

\* -------------------------------------------------------------- store.rs
\* InMemoryStore::new
StoreNew == [filters |-> EmptyMap, next_batch |-> EmptyMap, rooms |-> EmptyMap]

\* A variant of save_filter_id that inserts into the next_batch map.
SaveFilterId_into_next_batch(s, user_id, filter_id) == [s EXCEPT !.next_batch = MapInsert(@, user_id, filter_id)]

SaveFilterId(s, user_id, filter_id) == [s EXCEPT !.filters = MapInsert(@, user_id, filter_id)]

LoadFilterId(s, user_id) == IF user_id \in DOMAIN s.filters THEN OkTok(s.filters[user_id]) ELSE Panic

\* A variant of save_next_batch that keeps a token already stored for the
\* user (entry().or_insert instead of insert).
SaveNextBatch_keep_first(s, user_id, token) == IF user_id \in DOMAIN s.next_batch THEN s ELSE [s EXCEPT !.next_batch = MapInsert(@, user_id, token)]

SaveNextBatch(s, user_id, token) == [s EXCEPT !.next_batch = MapInsert(@, user_id, token)]

LoadNextBatch(s, user_id) == IF user_id \in DOMAIN s.next_batch THEN OkTok(s.next_batch[user_id]) ELSE Panic

\* A variant of save_room that keeps the snapshot already stored under the
\* id (entry().or_insert instead of insert).
SaveRoom_keep_first(s, r) == IF r.id \in DOMAIN s.rooms THEN s ELSE [s EXCEPT !.rooms = MapInsert(@, r.id, r)]

SaveRoom(s, r) == [s EXCEPT !.rooms = MapInsert(@, r.id, r)]

LoadRoom(s, room_id) == IF room_id \in DOMAIN s.rooms THEN OkRoom(s.rooms[room_id]) ELSE Panic

\* ----------------------------------------------------------------- state
VARIABLES
  room,      \* the Room the sync driver holds
  store,     \* the InMemoryStore's three maps
  moved,     \* TRUE once the store was passed by value (consumed)
  aborted,   \* TRUE once a call panicked
  ret,       \* the last call: its name, the event applied (and whether the call
             \* before applied the same event), the value returned
  applied,   \* history: the event types passed to update_state on this room
  saved,     \* history: per room id, the Room last passed to save_room on this store
  resaved,   \* history: some save_room replaced a different snapshot of the same id
  last_filter, \* history: per user, the filter id last passed to save_filter_id
  last_batch,  \* history: per user, the token last passed to save_next_batch
  html_text,   \* the markup handed to get_html_message
  message,     \* the HTMLMessage get_html_message returned, or NoMessage
  ev,          \* the Event whose content is looked up
  w_pc,        \* the writer: "idle", or "modify" between the two statements of update_state
  w_event,     \* the event the writer is applying
  r_read,      \* per reader, the query it is in the middle of, or NoRead
  seen,        \* per reader, the result of its last query
  committed    \* history: the room state as the last completed update_state left it

storeVars == <<store, moved, saved, resaved, last_filter, last_batch>>
roomVars == <<room, applied>>
htmlVars == <<html_text, message>>
concVars == <<w_pc, w_event, r_read, seen, committed>>
auxVars == <<htmlVars, ev, concVars>>

vars == <<room, store, moved, aborted, ret, applied, saved, resaved, last_filter, last_batch, auxVars>>

InitRoomStore ==
  /\ room \in {RoomNew(id) : id \in RoomIds}
  /\ store = StoreNew
  /\ moved = FALSE
  /\ aborted = FALSE
  /\ ret = [op |-> "init", val |-> Unit]
  /\ applied = {}
  /\ saved = EmptyMap
  /\ resaved = FALSE
  /\ last_filter = EmptyMap
  /\ last_batch = EmptyMap

InitHtmlNone ==
  /\ html_text = <<>>
  /\ message = NoMessage

InitEventNone == ev = [state_key |-> NoStateKey, etype |-> MessageEventType, time_stamp |-> 1, content |-> EmptyMap]

Readers == 1..NumReaders
NoRead == [op |-> "none"]
NotRead == [tag |-> "NotRead"]
NoEvent == [tag |-> "NoEvent"]

\* The queries of a reader.
Reads ==
  [op : {"get_state_event"}, event_type : ETypes, state_key : StateKeys]
  \cup [op : {"get_membership_state"}, event_type : {MemberType}, state_key : Users]

InitConc ==
  /\ w_pc = "idle"
  /\ w_event = NoEvent
  /\ r_read = [r \in Readers |-> NoRead]
  /\ seen = [r \in Readers |-> NotRead]
  /\ committed = EmptyMap

Init == InitRoomStore /\ InitHtmlNone /\ InitEventNone /\ InitConc

\* ------------------------------------------------------- room operations
\* Room::new: the driver starts over with an empty room.
room_new(id) ==
  /\ ~aborted
  /\ room' = RoomNew(id)
  /\ applied' = {}
  /\ ret' = [op |-> "Room::new", val |-> Unit]
  /\ UNCHANGED <<aborted, storeVars, auxVars>>

update_state(event) ==
  /\ ~aborted
  /\ room' = [room EXCEPT !.state = UpdateState(@, event)]
  /\ applied' = applied \cup {event.etype}
  /\ ret' = [op |-> "update_state", event |-> event, val |-> Unit,
             again |-> (ret.op = "update_state" /\ ret.event = event)]
  /\ UNCHANGED <<aborted, storeVars, auxVars>>

get_state_event(event_type, state_key) ==
  /\ ~aborted
  /\ LET r == GetStateEvent(room.state, event_type, state_key)
     IN /\ ret' = [op |-> "get_state_event", val |-> r]
        /\ aborted' = (r = Panic)
  /\ UNCHANGED <<roomVars, storeVars, auxVars>>

get_membership_state(user_id) ==
  /\ ~aborted
  /\ LET r == GetMembershipState(room.state, user_id)
     IN /\ ret' = [op |-> "get_membership_state", val |-> r]
        /\ aborted' = (r = Panic)
  /\ UNCHANGED <<roomVars, storeVars, auxVars>>

Next ==
  \/ \E id \in RoomIds : room_new(id)
  \/ \E event \in Event : update_state(event)
  \/ \E event_type \in ETypes, state_key \in StateKeys : get_state_event(event_type, state_key)
  \/ \E user_id \in Users : get_membership_state(user_id)

\* One Room and the calls of its driver.
Spec == Init /\ [][Next]_vars

\* ------------------------------------------------------ store operations
\* InMemoryStore::new: a fresh store replaces the one held.
store_new ==
  /\ ~aborted
  /\ store' = StoreNew
  /\ moved' = FALSE
  /\ saved' = EmptyMap
  /\ resaved' = FALSE
  /\ last_filter' = EmptyMap
  /\ last_batch' = EmptyMap
  /\ ret' = [op |-> "InMemoryStore::new", val |-> Unit]
  /\ UNCHANGED <<aborted, roomVars, auxVars>>

save_filter_id(user_id, filter_id) ==
  /\ ~aborted /\ ~moved
  /\ store' = SaveFilterId(store, user_id, filter_id)
  /\ last_filter' = MapInsert(last_filter, user_id, filter_id)
  /\ ret' = [op |-> "save_filter_id", val |-> Unit]
  /\ UNCHANGED <<moved, aborted, saved, resaved, last_batch, roomVars, auxVars>>

save_next_batch(user_id, token) ==
  /\ ~aborted /\ ~moved
  /\ store' = SaveNextBatch(store, user_id, token)
  /\ last_batch' = MapInsert(last_batch, user_id, token)
  /\ ret' = [op |-> "save_next_batch", val |-> Unit]
  /\ UNCHANGED <<moved, aborted, saved, resaved, last_filter, roomVars, auxVars>>

\* save_room takes a Room by value.
save_room(r) ==
  /\ ~aborted /\ ~moved
  /\ store' = SaveRoom(store, r)
  /\ saved' = MapInsert(saved, r.id, r)
  /\ resaved' = (resaved \/ (r.id \in DOMAIN saved /\ saved[r.id] # r))
  /\ ret' = [op |-> "save_room", val |-> Unit]
  /\ UNCHANGED <<moved, aborted, last_filter, last_batch, roomVars, auxVars>>

\* The load_* methods take `self` by value: the store is moved into the
\* call and dropped when it returns (or unwinds).
Consume ==
  /\ store' = StoreNew
  /\ moved' = TRUE
  /\ saved' = EmptyMap
  /\ UNCHANGED <<resaved, last_filter, last_batch, roomVars, auxVars>>

load_filter_id(user_id) ==
  /\ ~aborted /\ ~moved
  /\ LET r == LoadFilterId(store, user_id)
     IN /\ ret' = [op |-> "load_filter_id", val |-> r]
        /\ aborted' = (r = Panic)
  /\ Consume

load_next_batch(user_id) ==
  /\ ~aborted /\ ~moved
  /\ LET r == LoadNextBatch(store, user_id)
     IN /\ ret' = [op |-> "load_next_batch", val |-> r]
        /\ aborted' = (r = Panic)
  /\ Consume

load_room(room_id) ==
  /\ ~aborted /\ ~moved
  /\ LET r == LoadRoom(store, room_id)
     IN /\ ret' = [op |-> "load_room", val |-> r]
        /\ aborted' = (r = Panic)
  /\ Consume

NextStore ==
  \/ store_new
  \/ \E user_id \in Users, filter_id \in Tokens : save_filter_id(user_id, filter_id)
  \/ \E user_id \in Users, token \in Tokens : save_next_batch(user_id, token)
  \/ \E r \in Rooms : save_room(r)
  \/ \E user_id \in Users : load_filter_id(user_id)
  \/ \E user_id \in Users : load_next_batch(user_id)
  \/ \E room_id \in RoomIds : load_room(room_id)

\* One InMemoryStore and the calls of its driver.
SpecStore == Init /\ [][NextStore]_vars

\* ------------------------------------------------------- HTML rendering
InitHtml ==
  /\ InitRoomStore
  /\ html_text \in HtmlTexts
  /\ message = NoMessage
  /\ InitEventNone
  /\ InitConc

get_html_message(message_type) ==
  /\ ~aborted
  /\ message' = GetHtmlMessage(message_type, html_text)
  /\ ret' = [op |-> "get_html_message", val |-> Unit]
  /\ UNCHANGED <<html_text, ev, concVars, aborted, roomVars, storeVars>>

NextHtml == \E message_type \in MessageTypes : get_html_message(message_type)

\* get_html_message on every text of HtmlTexts.
SpecHtml == InitHtml /\ [][NextHtml]_vars

\* ------------------------------------------------- event content lookups
InitEvent ==
  /\ InitRoomStore
  /\ InitHtmlNone
  /\ InitConc
  /\ ev \in MsgEvents

Event_body ==
  /\ ~aborted
  /\ ret' = [op |-> "body", val |-> Body(ev)]
  /\ UNCHANGED <<ev, htmlVars, concVars, aborted, roomVars, storeVars>>

Event_message_type ==
  /\ ~aborted
  /\ ret' = [op |-> "message_type", val |-> MessageType(ev)]
  /\ UNCHANGED <<ev, htmlVars, concVars, aborted, roomVars, storeVars>>

NextEvent == Event_body \/ Event_message_type

\* body() and message_type() on every event of MsgEvents.
SpecEvent == InitEvent /\ [][NextEvent]_vars

\* ------------------------------------------- one writer, several readers
\* The writer enters update_state(event) and runs its first statement.
writer_begin(event) ==
  /\ w_pc = "idle"
  /\ ExclusiveBorrowOk([r \in Readers |-> r_read[r] # NoRead])
  /\ room' = [room EXCEPT !.state = UpdateStateInsert(@, event)]
  /\ applied' = applied \cup {event.etype}
  /\ w_pc' = "modify"
  /\ w_event' = event
  /\ UNCHANGED <<r_read, seen, committed, aborted, ret, storeVars, htmlVars, ev>>

\* The writer runs the second statement of update_state and returns.
writer_finish ==
  /\ w_pc = "modify"
  /\ room' = [room EXCEPT !.state = UpdateStateModify(@, w_event)]
  /\ committed' = room'.state
  /\ w_pc' = "idle"
  /\ w_event' = NoEvent
  /\ UNCHANGED <<applied, r_read, seen, aborted, ret, storeVars, htmlVars, ev>>

\* A reader enters a query: the lookup of the event type (room.rs:51-54),
\* whose expect() ends the reader when the type is unknown.
reader_begin(r, rd) ==
  /\ r_read[r] = NoRead
  /\ seen[r] # Panic
  /\ SharedBorrowOk(w_pc)
  /\ IF MapGet(room.state, rd.event_type) = None
     THEN /\ seen' = [seen EXCEPT ![r] = Panic]
          /\ UNCHANGED r_read
     ELSE /\ r_read' = [r_read EXCEPT ![r] = rd]
          /\ UNCHANGED seen
  /\ UNCHANGED <<w_pc, w_event, committed, aborted, ret, roomVars, storeVars, htmlVars, ev>>

\* The reader finishes its query: the lookup of the state key (room.rs:56)
\* and, for get_membership_state, the match on it (room.rs:65-73).
reader_finish(r) ==
  /\ r_read[r] # NoRead
  /\ LET rd == r_read[r]
         found == MapGet(room.state[rd.event_type], rd.state_key)
         result == IF rd.op = "get_state_event" THEN found
                   ELSE IF found = None THEN OkStr("leave")
                   ELSE IF "membership" \in DOMAIN found.ev.content
                        THEN OkStr(found.ev.content.membership)
                        ELSE Panic
     IN seen' = [seen EXCEPT ![r] = result]
  /\ r_read' = [r_read EXCEPT ![r] = NoRead]
  /\ UNCHANGED <<w_pc, w_event, committed, aborted, ret, roomVars, storeVars, htmlVars, ev>>

NextConc ==
  \/ \E event \in Event : writer_begin(event)
  \/ writer_finish
  \/ \E r \in Readers, rd \in Reads : reader_begin(r, rd)
  \/ \E r \in Readers : reader_finish(r)

\* One writer applying events to a Room that readers query.
SpecConc == Init /\ [][NextConc]_vars

\* The rooms handed to save_room are the rooms the room operations build.
RoomIsConstructed == room \in Rooms

\* ================================================================ claims
\* What a caller can observe of a room state: the result of every
\* get_state_event and get_membership_state query.
Observe(state) ==
  [events |-> [q \in ETypes \X StateKeys |-> GetStateEvent(state, q[1], q[2])],
   membership |-> [u \in Users |-> GetMembershipState(state, u)]]

SameSlot(a, b) == a.etype = b.etype /\ a.state_key = b.state_key

IsStateEvent(e) == e.state_key # NoStateKey

\* C1 (last-write-wins): when update_state(A) is followed by update_state(B)
\* of another event B with the same (etype, state_key),
\* get_state_event(etype, state_key)
\* returns exactly B, and A is returned for no (type, key).
C1_LastWriteWins ==
  [][\A b \in Event :
       (/\ ret.op = "update_state"
        /\ update_state(b)
        /\ IsStateEvent(b)
        /\ SameSlot(ret.event, b)
        /\ ret.event # b)
       => /\ GetStateEvent(room'.state, b.etype, b.state_key) = Some(b)
          /\ \A t \in ETypes, k \in StateKeys :
               GetStateEvent(room'.state, t, k) # Some(ret.event)]_vars

\* C2 (first use creates the slot): when update_state(e) is applied to a
\* room whose (etype, state_key) slot has no resident event, afterwards the
\* outer and inner mappings exist and get_state_event returns e.
C2_FirstUseCreatesSlot ==
  [][\A e \in Event :
       (/\ update_state(e)
        /\ IsStateEvent(e)
        /\ GetStateEvent(room.state, e.etype, e.state_key) \in {None, Panic})
       => /\ e.etype \in DOMAIN room'.state
          /\ e.state_key \in DOMAIN room'.state[e.etype]
          /\ GetStateEvent(room'.state, e.etype, e.state_key) = Some(e)]_vars

\* C3 (absence safety): get_state_event with an event type never applied
\* to the room returns None (the result of a missing state key) and does
\* not abort.
C3_AbsenceSafety ==
  [][\A t \in ETypes, k \in StateKeys :
       (get_state_event(t, k) /\ t \notin applied)
       => (ret'.val = None /\ ~aborted')]_vars

\* C4 (membership default): get_membership_state(user) for a user with no
\* resident membership event returns "leave" and does not abort.
C4_MembershipDefault ==
  [][\A u \in Users :
       (/\ get_membership_state(u)
        /\ ~(MemberType \in DOMAIN room.state /\ u \in DOMAIN room.state[MemberType]))
       => (ret'.val = OkStr("leave") /\ ~aborted')]_vars

\* C5 (membership follows the latest membership event): after applying an
\* m.room.member event for user u whose content has membership m ("join",
\* then "leave"), get_membership_state(u) returns m.
C5_MembershipFollowsLatest ==
  [][\A e \in Event :
       (/\ update_state(e)
        /\ e.etype = MemberType
        /\ e.state_key \in Users
        /\ "membership" \in DOMAIN e.content)
       => GetMembershipState(room'.state, e.state_key) = OkStr(e.content.membership)]_vars

\* C9 (idempotence): applying event e right after applying e leaves every
\* get_state_event and get_membership_state result as it was after the first
\* application.
C9_Idempotent ==
  [][\A e \in Event :
       (update_state(e) /\ ret'.again)
       => Observe(room'.state) = Observe(room.state)]_vars

\* C9 witness: the same event was applied twice in a row.
C9_AppliedTwice == ret.op = "update_state" /\ ret.again /\ ~aborted

\* C10 (non-state events are rejected): update_state of an event without a
\* state key returns an InvalidStateEvent condition and leaves the room
\* unchanged.
InvalidStateEvent == [tag |-> "InvalidStateEvent"]

C10_NonStateRejected ==
  [][\A e \in Event :
       (update_state(e) /\ ~IsStateEvent(e))
       => (ret'.val = InvalidStateEvent /\ room' = room)]_vars

\* C6 (room round-trip): load_room(id) returns the Room last passed to
\* save_room with that id, equal in id and state.
C6_RoomRoundTrip ==
  [][\A id \in RoomIds :
       (load_room(id) /\ id \in DOMAIN saved)
       => (ret'.val = OkRoom(saved[id]) /\ ret'.val.room.id = id)]_vars

\* C6 witness: load_room returned a room with state, after a snapshot of
\* some id had been replaced by a different one.
C6_LoadedAfterResave ==
  /\ ret.op = "load_room"
  /\ ret.val.tag = "Room"
  /\ ret.val.room.state # EmptyMap
  /\ resaved

\* C7 (not found): a load_* call with a key that was never saved returns
\* NotFound as a value and does not abort.
NotFound == [tag |-> "NotFound"]

C7_LoadNotFound ==
  [][/\ \A u \in Users :
          (load_filter_id(u) /\ u \notin DOMAIN store.filters)
          => (ret'.val = NotFound /\ ~aborted')
     /\ \A u \in Users :
          (load_next_batch(u) /\ u \notin DOMAIN store.next_batch)
          => (ret'.val = NotFound /\ ~aborted')
     /\ \A id \in RoomIds :
          (load_room(id) /\ id \notin DOMAIN saved)
          => (ret'.val = NotFound /\ ~aborted')]_vars

\* C8 (the store survives loads): after a load_* call that returned, the
\* store is still usable (the save_* and load_* operations are enabled) and
\* its filters, next_batch and rooms are unchanged.
IsLoad ==
  \/ \E u \in Users : load_filter_id(u)
  \/ \E u \in Users : load_next_batch(u)
  \/ \E id \in RoomIds : load_room(id)

StoreUsable == ~moved /\ ~aborted

C8_StoreSurvivesLoads ==
  [][(IsLoad /\ ret'.val # Panic) => (StoreUsable' /\ store' = store)]_vars

\* C11 (malformed membership event): after a membership event for user u
\* whose content has no "membership" key was applied, get_membership_state(u)
\* surfaces a malformed-event condition: not the default "leave", not a
\* crash.
MalformedEvent == [tag |-> "MalformedEvent"]

C11_MalformedMembership ==
  [][\A e \in Event :
       (/\ update_state(e)
        /\ e.etype = MemberType
        /\ e.state_key \in Users
        /\ "membership" \notin DOMAIN e.content)
       => GetMembershipState(room'.state, e.state_key) = MalformedEvent]_vars

\* C12 (older events do not displace newer ones): when update_state(A) is
\* followed by update_state(B) with the same (etype, state_key) and a smaller
\* time_stamp, the slot still holds A and the room state is unchanged.
C12_OlderIsNoOp ==
  [][\A b \in Event :
       (/\ ret.op = "update_state"
        /\ update_state(b)
        /\ IsStateEvent(b)
        /\ SameSlot(ret.event, b)
        /\ b.time_stamp < ret.event.time_stamp)
       => /\ room' = room
          /\ GetStateEvent(room'.state, b.etype, b.state_key) = Some(ret.event)]_vars

\* C18 (the known event types only grow): the key set of the outer state
\* mapping is the set of etype values applied to the room so far, no
\* update_state removes a type, and get_state_event(t, k) for an applied
\* type t returns without aborting.
C18_TypesOnlyGrow ==
  /\ [](DOMAIN room.state = applied)
  /\ [][/\ \A e \in Event :
             update_state(e) => DOMAIN room.state \subseteq DOMAIN room'.state
        /\ \A t \in ETypes, k \in StateKeys :
             (get_state_event(t, k) /\ t \in applied)
             => (ret'.val # Panic /\ ~aborted')]_vars

\* C18 witness: get_state_event returned on a room to which every event type
\* was applied.
C18_QueriedKnownType ==
  /\ ret.op = "get_state_event"
  /\ ret.val = None
  /\ applied = ETypes
  /\ ~aborted

\* C13 as claimed: every span from a '<' to the next '>' is removed.
RECURSIVE NextGt(_, _)
NextGt(s, j) == IF j > Len(s) THEN 0 ELSE IF s[j] = ">" THEN j ELSE NextGt(s, j + 1)

RECURSIVE StripEverySpan(_, _)
StripEverySpan(s, i) ==
  IF i > Len(s) THEN <<>>
  ELSE LET e == IF s[i] = "<" THEN NextGt(s, i + 1) ELSE 0
       IN IF e > 0 THEN StripEverySpan(s, e + 1)
          ELSE <<s[i]>> \o StripEverySpan(s, i + 1)

\* C13 (original): get_html_message never fails, formatted_body is the
\* input, and body is the input with every span from a '<' to the next '>'
\* removed (the empty tag "<>" and spans holding a further '<' included),
\* then entity-decoded.
C13_StripsEverySpan ==
  message # NoMessage
  => /\ message.formatted_body = html_text
     /\ message.body = DecodeHtmlEntities(StripEverySpan(html_text, 1))

\* The spans the pattern removes, stated position by position: a tag starts
\* at a '<' that is followed by one or more characters other than '<' and
\* then a '>'; it ends at the first '>' at least two positions after its '<'.
IsTagStart(s, i) ==
  /\ s[i] = "<"
  /\ \E j \in (i + 2)..Len(s) : s[j] = ">" /\ \A k \in (i + 1)..(j - 1) : s[k] # "<"

TagEnd(s, i) ==
  CHOOSE j \in (i + 2)..Len(s) : s[j] = ">" /\ \A k \in (i + 2)..(j - 1) : s[k] # ">"

InTag(s, k) == \E i \in 1..k : IsTagStart(s, i) /\ k <= TagEnd(s, i)

RECURSIVE OutsideTags(_, _)
OutsideTags(s, k) ==
  IF k > Len(s) THEN <<>>
  ELSE (IF InTag(s, k) THEN <<>> ELSE <<s[k]>>) \o OutsideTags(s, k + 1)

\* C13 (amended): get_html_message never fails, formatted_body is the input,
\* and body is the input without the characters of its tags, entity-decoded
\* afterwards; "<>" alone and a '<' that meets another '<' first are kept.
C13_StripsTags ==
  [][\A mt \in MessageTypes :
       get_html_message(mt)
       => /\ message' # NoMessage
          /\ ~aborted'
          /\ message'.message_type = mt
          /\ message'.formatted_body = html_text
          /\ message'.body = DecodeHtmlEntities(OutsideTags(html_text, 1))]_vars

\* C13 witness: a message was built from a text with a tag that is removed
\* and a '<' that is kept.
C13_TagAndStrayLt ==
  /\ message # NoMessage
  /\ \E k \in 1..Len(html_text) : InTag(html_text, k)
  /\ \E k \in 1..Len(html_text) : html_text[k] = "<" /\ ~InTag(html_text, k)

\* C15 (cursor and filter are per-user last-write registers):
\* load_next_batch(u) returns the token last saved for u and
\* load_filter_id(u) the filter id last saved for u, whatever was saved for
\* other users.
C15_LastWriteRegisters ==
  [][/\ \A u \in Users :
          (load_next_batch(u) /\ u \in DOMAIN last_batch)
          => ret'.val = OkTok(last_batch[u])
     /\ \A u \in Users :
          (load_filter_id(u) /\ u \in DOMAIN last_filter)
          => ret'.val = OkTok(last_filter[u])]_vars

\* C15 witness: a load returned a token after both users had saved
\* different cursors and different filter ids.
C15_LoadedAmongOthers ==
  /\ ret.op \in {"load_next_batch", "load_filter_id"}
  /\ ret.val.tag = "Tok"
  /\ DOMAIN last_batch = Users /\ last_batch[Alice] # last_batch[Bob]
  /\ DOMAIN last_filter = Users /\ last_filter[Alice] # last_filter[Bob]

\* C16 (independent key spaces): save_filter_id(u, f) changes only the
\* filter entry of u, save_next_batch(u, t) only the cursor entry of u,
\* save_room(r) only the snapshot under r.id.
C16_IndependentKeySpaces ==
  [][/\ \A u \in Users, f \in Tokens :
          save_filter_id(u, f)
          => /\ store'.next_batch = store.next_batch
             /\ store'.rooms = store.rooms
             /\ store'.filters[u] = f
             /\ \A v \in Users \ {u} : MapGet(store'.filters, v) = MapGet(store.filters, v)
     /\ \A u \in Users, t \in Tokens :
          save_next_batch(u, t)
          => /\ store'.filters = store.filters
             /\ store'.rooms = store.rooms
             /\ store'.next_batch[u] = t
             /\ \A v \in Users \ {u} : MapGet(store'.next_batch, v) = MapGet(store.next_batch, v)
     /\ \A r \in Rooms :
          save_room(r)
          => /\ store'.filters = store.filters
             /\ store'.next_batch = store.next_batch
             /\ store'.rooms[r.id] = r
             /\ \A id \in RoomIds \ {r.id} : MapGet(store'.rooms, id) = MapGet(store.rooms, id)]_vars

\* C16 witness: a save_filter_id on a store holding filters of both users,
\* a cursor and a room snapshot.
C16_SavedIntoFullStore ==
  /\ ret.op = "save_filter_id"
  /\ DOMAIN store.filters = Users
  /\ store.next_batch # EmptyMap
  /\ store.rooms # EmptyMap

\* C17 (content lookups are total): body() returns the value under
\* content["body"] and message_type() the value under content["msgtype"],
\* each None without an error when its key is missing; neither changes the
\* event.
C17_LookupsTotal ==
  [][/\ Event_body
        => /\ ret'.val = IF "body" \in DOMAIN ev.content THEN Some(ev.content["body"]) ELSE None
           /\ ev' = ev /\ ~aborted'
     /\ Event_message_type
        => /\ ret'.val = IF "msgtype" \in DOMAIN ev.content THEN Some(ev.content["msgtype"]) ELSE None
           /\ ev' = ev /\ ~aborted']_vars

\* C17 witness: message_type() returned None on an event whose content has
\* a body but no msgtype.
C17_MissingMsgtype ==
  /\ ret.op = "message_type"
  /\ ret.val = None
  /\ DOMAIN ev.content = {"body"}
  /\ ~aborted

\* What a query returns on a room state.
ReadResult(state, rd) ==
  IF rd.op = "get_state_event"
  THEN GetStateEvent(state, rd.event_type, rd.state_key)
  ELSE GetMembershipState(state, rd.state_key)

====
